---------------------------- MODULE Spec2Model ----------------------------
(***************************************************************************)
(* A model of pypyrus' bit packer (bits.py, class Packer) and of the LZW   *)
(* encoder built on it (filter.py, lzw_encode).                            *)
(*                                                                         *)
(* A Packer object is a record; each method is an operator from the        *)
(* record (and the arguments) to the record after the call.  Python's      *)
(* unbounded integers are TLA+ integers; the bitwise operators are         *)
(* computed bit by bit.                                                    *)
(***************************************************************************)
EXTENDS Integers, Sequences, FiniteSets, TLC

VARIABLES
    p,          \* the Packer under test (lzw_encode's local `codes`)
    q,          \* a second Packer (the decoder of a round trip, the reference of an equivalence)
    pc,         \* position of the driving program
    pushed,     \* history: the bits packed into p before it is drained, in pack order;
                \* in SpecReconf, the bits p held when its output width was changed
    stream,     \* history: the bits packed into p and not yet returned by next()
    outs,       \* history: the values p.next() returned, in order
    outs2,      \* history: the values q.next() returned, in order
    last,       \* history: the last call made on p and what it did
    nset,       \* history: number of set_*_field_width calls made on p
    s,          \* lzw_encode: the input byte string
    idx,        \* number of items consumed by the running for loop (lzw_encode's, the repacking's)
    seq,        \* lzw_encode: the local seq
    lzw_table,  \* lzw_encode: the defaultdict's entries
    count,      \* lzw_encode: next value of itertools.count(258)
    emitted     \* history: the codes handed to p.pack, in order (round trip, lzw_encode)

vars == <<p, q, pc, pushed, stream, outs, outs2, last, nset,
          s, idx, seq, lzw_table, count, emitted>>

lzwVars == <<s, idx, seq, lzw_table, count, emitted>>

----------------------------------------------------------------------------
(* Bounds of the model *)

\* largest field width and output width an explored call uses
MaxWidth == 3
\* largest number of packed bits a packer holds (buffered and queued) at a time
MaxBits == 4
\* largest number of set_input_field_width / set_output_field_width calls in a run
MaxSets == 1
\* largest number of bits packed before a packer is drained
MaxDrainBits == 6
\* largest number of codes sent through the round trip
MaxCodes == 8
\* largest length of the inputs of lzw_encode explored exhaustively
MaxInput == 4

Widths == 1..MaxWidth

\* the codes sent through the round trip (each < 512)
RtCodes == {0, 258, 511}

\* the values packed in a field of width w: all zeros, only the lowest bit,
\* all ones (every value fits its width)
Values(w) == {0, 1, 2^w - 1}

----------------------------------------------------------------------------
(* Python's integer operators *)

Max(a, b) == IF a >= b THEN a ELSE b

\* x << n
Shl(x, n) == x * 2^n

\* x >> n, x >= 0
Shr(x, n) == x \div 2^n

RECURSIVE AndNat(_, _)
AndNat(a, b) ==
    IF a = 0 \/ b = 0 THEN 0
    ELSE 2 * AndNat(a \div 2, b \div 2) + (IF a % 2 = 1 /\ b % 2 = 1 THEN 1 ELSE 0)

RECURSIVE OrNat(_, _)
OrNat(a, b) ==
    IF a = 0 THEN b
    ELSE IF b = 0 THEN a
    ELSE 2 * OrNat(a \div 2, b \div 2) + (IF a % 2 = 1 \/ b % 2 = 1 THEN 1 ELSE 0)

\* ~x (two's complement of unbounded width)
Not(x) == 0 - x - 1

\* a & b for a >= 0 and b of either sign: a negative b is ~m for m = -b-1 >= 0,
\* and a & ~m clears in a the bits set in m
And(a, b) == IF b >= 0 THEN AndNat(a, b) ELSE a - AndNat(a, Not(b))

\* a | b for a, b >= 0
Or(a, b) == OrNat(a, b)

RECURSIVE bit_length(_)
bit_length(n) == IF n = 0 THEN 0 ELSE 1 + bit_length(n \div 2)

----------------------------------------------------------------------------
(* class Packer *)

\* pack's wbits=None
None == <<>>

\* Packer's default out_wbits, the width of a byte
ByteWidth == 8

\* the width of an LZW code in the doctests and in lzw_encode: Packer(9)
CodeWidth == 9

\* the attribute set_input_field_width assigns, which no method reads; 0: not set
NoAttr == 0

RECURSIVE MaskLoop(_, _)
\* for i in range(out_wbits): pack_mask |= (1 << i), from i up to n-1
MaskLoop(i, n) == IF i >= n THEN 0 ELSE Or(Shl(1, i), MaskLoop(i + 1, n))

update_masks(pk) ==
    LET pack_mask == MaskLoop(0, pk.out_wbits)
    IN  [pk EXCEPT !.pack_mask = pack_mask,
                   !.clear_mask = Not(Shl(pack_mask, pk.max_wbits))]

Packer(in_wbits, out_wbits) ==
    update_masks([default_wbits |-> in_wbits,
                  defualt_wbits |-> NoAttr,
                  fields |-> <<>>,
                  r |-> 0,
                  out_wbits |-> out_wbits,
                  max_wbits |-> in_wbits,
                  r_wbits |-> out_wbits + in_wbits,
                  bit_count |-> 0,
                  pack_mask |-> 0,
                  clear_mask |-> 0])

\* a mutant of update_max_wbits: the masks are not regenerated
update_max_wbits_StaleMasks(pk, new_max) ==
    IF new_max > pk.max_wbits
    THEN [pk EXCEPT !.max_wbits = new_max,
                    !.r_wbits = pk.out_wbits + new_max]
    ELSE pk

\* `self.r << diff` computes a value and discards it: r is not assigned.
update_max_wbits(pk, new_max) ==
    IF new_max > pk.max_wbits
    THEN update_masks([pk EXCEPT !.max_wbits = new_max,
                                 !.r_wbits = pk.out_wbits + new_max])
    ELSE pk

\* a mutant of NextRaises: the buffered bits are forgotten
NextRaises_QueueOnly(pk) == Len(pk.fields) = 0

\* next(): the condition under which StopIteration is raised
NextRaises(pk) == Len(pk.fields) = 0 /\ pk.bit_count <= 0

RECURSIVE Fill_OverBuffered(_)
\* a mutant of Fill: a field is placed at the top of the buffer, over the bits
\* already buffered
Fill_OverBuffered(pk) ==
    IF pk.bit_count < pk.out_wbits /\ Len(pk.fields) # 0
    THEN LET v == Head(pk.fields)[1]
             wbits == Head(pk.fields)[2]
         IN  Fill_OverBuffered([pk EXCEPT !.fields = Tail(pk.fields),
                                          !.r = Or(pk.r, Shl(v, pk.r_wbits - wbits)),
                                          !.bit_count = pk.bit_count + wbits])
    ELSE pk

RECURSIVE Fill_OneMore(_)
\* a mutant of Fill: the loop also runs when bit_count = out_wbits
Fill_OneMore(pk) ==
    IF pk.bit_count <= pk.out_wbits /\ Len(pk.fields) # 0
    THEN LET v == Head(pk.fields)[1]
             wbits == Head(pk.fields)[2]
         IN  Fill_OneMore([pk EXCEPT !.fields = Tail(pk.fields),
                                     !.r = Or(pk.r, Shl(v, pk.r_wbits - pk.bit_count - wbits)),
                                     !.bit_count = pk.bit_count + wbits])
    ELSE pk

RECURSIVE Fill(_)
\* next(): the while loop that folds queued fields into r
Fill(pk) ==
    IF pk.bit_count < pk.out_wbits /\ Len(pk.fields) # 0
    THEN LET v == Head(pk.fields)[1]
             wbits == Head(pk.fields)[2]
         IN  Fill([pk EXCEPT !.fields = Tail(pk.fields),
                             !.r = Or(pk.r, Shl(v, pk.r_wbits - pk.bit_count - wbits)),
                             !.bit_count = pk.bit_count + wbits])
    ELSE pk

\* a mutant of Remaining: the extracted bits stay counted
Remaining_Forgotten(bit_count, out_wbits) == bit_count

\* a mutant of Remaining: the extracted bits are added to bit_count
Remaining_Added(bit_count, out_wbits) == bit_count + out_wbits

\* next(): bit_count after the extraction
Remaining(bit_count, out_wbits) == Max(0, bit_count - out_wbits)

\* a mutant of NextValue: the buffer is shifted by the output width
NextValue_ShiftByOut(pk) ==
    LET f == Fill(pk) IN And(Shr(f.r, f.out_wbits), f.pack_mask)

\* next(): the value returned (when it does not raise)
NextValue(pk) ==
    LET f == Fill(pk) IN And(Shr(f.r, f.max_wbits), f.pack_mask)

\* next(): the packer after the call (unchanged when it raises)
NextPacker(pk) ==
    IF NextRaises(pk) THEN pk
    ELSE LET f == Fill(pk)
         IN  [f EXCEPT !.r = Shl(And(f.r, f.clear_mask), f.out_wbits),
                       !.bit_count = Remaining(f.bit_count, f.out_wbits)]

set_input_field_width(pk, in_wbits) ==
    [update_max_wbits(pk, in_wbits) EXCEPT !.defualt_wbits = in_wbits]

\* a mutant of set_output_field_width: the saved bits are not put back at the
\* top of the resized buffer
set_output_field_width_KeepR(pk, out_wbits) ==
    LET max_wbits == Max(pk.max_wbits, pk.bit_count - out_wbits)
        r_wbits == out_wbits + max_wbits
    IN  update_masks([pk EXCEPT !.out_wbits = out_wbits,
                                !.max_wbits = max_wbits,
                                !.r_wbits = r_wbits])

\* a mutant of set_output_field_width: the masks are not regenerated
set_output_field_width_StaleMasks(pk, out_wbits) ==
    LET saved_bits == Shr(pk.r, pk.r_wbits - pk.bit_count)
        max_wbits == Max(pk.max_wbits, pk.bit_count - out_wbits)
        r_wbits == out_wbits + max_wbits
    IN  [pk EXCEPT !.out_wbits = out_wbits,
                   !.max_wbits = max_wbits,
                   !.r_wbits = r_wbits,
                   !.r = Shl(saved_bits, r_wbits - pk.bit_count)]

set_output_field_width(pk, out_wbits) ==
    LET saved_bits == Shr(pk.r, pk.r_wbits - pk.bit_count)
        max_wbits == Max(pk.max_wbits, pk.bit_count - out_wbits)
        r_wbits == out_wbits + max_wbits
    IN  update_masks([pk EXCEPT !.out_wbits = out_wbits,
                                !.max_wbits = max_wbits,
                                !.r_wbits = r_wbits,
                                !.r = Shl(saved_bits, r_wbits - pk.bit_count)])

\* a mutant of pack: the field is folded into the buffer at once
pack_Eager(pk, field, wbits) ==
    LET w == IF wbits = None THEN pk.default_wbits ELSE wbits[1]
        pk1 == IF wbits = None THEN pk ELSE update_max_wbits(pk, wbits[1])
    IN  Fill([pk1 EXCEPT !.fields = Append(pk1.fields, <<field, w>>)])

\* wbits is None or <<w>>
pack(pk, field, wbits) ==
    LET w == IF wbits = None THEN pk.default_wbits ELSE wbits[1]
        pk1 == IF wbits = None THEN pk ELSE update_max_wbits(pk, wbits[1])
    IN  [pk1 EXCEPT !.fields = Append(pk1.fields, <<field, w>>)]

----------------------------------------------------------------------------
(* Bit strings, for the histories *)

RECURSIVE Bits(_, _)
\* the w-bit big-endian representation of v (v < 2^w)
Bits(v, w) == IF w = 0 THEN <<>> ELSE Append(Bits(v \div 2, w - 1), v % 2)

RECURSIVE Value(_)
\* the number a bit string denotes, big-endian
Value(b) == IF Len(b) = 0 THEN 0 ELSE 2 * Value(SubSeq(b, 1, Len(b) - 1)) + b[Len(b)]

RECURSIVE Zeros(_)
Zeros(n) == IF n <= 0 THEN <<>> ELSE <<0>> \o Zeros(n - 1)

RECURSIVE Concat(_, _)
\* the concatenation of the values of vs as w-bit groups
Concat(vs, w) == IF Len(vs) = 0 THEN <<>> ELSE Bits(Head(vs), w) \o Concat(Tail(vs), w)

RECURSIVE FieldBits(_)
\* the concatenation of the queued fields' bits
FieldBits(fs) ==
    IF Len(fs) = 0 THEN <<>> ELSE Bits(Head(fs)[1], Head(fs)[2]) \o FieldBits(Tail(fs))

Drop(b, n) == IF n >= Len(b) THEN <<>> ELSE SubSeq(b, n + 1, Len(b))

CeilDiv(a, b) == (a + b - 1) \div b

----------------------------------------------------------------------------
(* The packer driven through its public methods *)

\* the first n bits of b, zero-padded on the low side when b is shorter
Take(b, n) == IF n <= Len(b) THEN SubSeq(b, 1, n) ELSE b \o Zeros(n - Len(b))

\* the value a next() of width out_wbits owes, given the bits not yet returned
Expected(b, out_wbits) == Value(Take(b, out_wbits))

\* last: op, the method called; raised, next() raised StopIteration; value, the
\* field packed or the value returned; explicit, pack was given a width; width,
\* the width argument (next: the output width); grew, the call raised max_wbits
\* while bits were buffered; expect, the value the returned one should be
NoCall == [op |-> "init", raised |-> FALSE, value |-> 0, explicit |-> FALSE,
           width |-> 0, grew |-> FALSE, expect |-> 0]

IdleLzw ==
    /\ s = <<>> /\ idx = 0 /\ seq = <<>> /\ lzw_table = <<>> /\ count = 0
    /\ emitted = <<>>

Init ==
    /\ \E in_wbits \in Widths, out_wbits \in Widths : p = Packer(in_wbits, out_wbits)
    /\ q = Packer(1, 1)
    /\ pc = "api"
    /\ pushed = <<>> /\ stream = <<>> /\ outs = <<>> /\ outs2 = <<>>
    /\ last = NoCall
    /\ nset = 0
    /\ IdleLzw

\* p.pack(v)
PackDefault ==
    /\ pc = "api"
    /\ Len(stream) + p.default_wbits <= MaxBits
    /\ \E v \in Values(p.default_wbits) :
        /\ p' = pack(p, v, None)
        /\ stream' = stream \o Bits(v, p.default_wbits)
        /\ last' = [NoCall EXCEPT !.op = "pack", !.value = v]
    /\ UNCHANGED <<q, pc, pushed, outs, outs2, nset, lzwVars>>

\* p.pack(v, w)
PackWidth ==
    /\ pc = "api"
    /\ \E w \in Widths :
        /\ Len(stream) + w <= MaxBits
        /\ \E v \in Values(w) :
            /\ p' = pack(p, v, <<w>>)
            /\ stream' = stream \o Bits(v, w)
            /\ last' = [NoCall EXCEPT !.op = "pack", !.value = v, !.explicit = TRUE,
                                      !.width = w,
                                      !.grew = (w > p.max_wbits /\ p.bit_count > 0)]
    /\ UNCHANGED <<q, pc, pushed, outs, outs2, nset, lzwVars>>

\* p.next()
Next_ ==
    /\ pc = "api"
    /\ p' = NextPacker(p)
    /\ IF NextRaises(p)
       THEN /\ last' = [NoCall EXCEPT !.op = "next", !.raised = TRUE]
            /\ UNCHANGED stream
       ELSE /\ last' = [NoCall EXCEPT !.op = "next", !.value = NextValue(p),
                                      !.width = p.out_wbits,
                                      !.expect = Expected(stream, p.out_wbits)]
            /\ stream' = Drop(stream, p.out_wbits)
    /\ UNCHANGED <<q, pc, pushed, outs, outs2, nset, lzwVars>>

\* p.set_input_field_width(w)
SetInputFieldWidth ==
    /\ pc = "api"
    /\ nset < MaxSets
    /\ \E w \in Widths :
        /\ p' = set_input_field_width(p, w)
        /\ last' = [NoCall EXCEPT !.op = "set_input_field_width", !.width = w,
                                  !.grew = (w > p.max_wbits /\ p.bit_count > 0)]
    /\ nset' = nset + 1
    /\ UNCHANGED <<q, pc, pushed, stream, outs, outs2, lzwVars>>

\* p.set_output_field_width(w)
SetOutputFieldWidth ==
    /\ pc = "api"
    /\ nset < MaxSets
    /\ \E w \in Widths :
        /\ p' = set_output_field_width(p, w)
        /\ last' = [NoCall EXCEPT !.op = "set_output_field_width", !.width = w]
    /\ nset' = nset + 1
    /\ UNCHANGED <<q, pc, pushed, stream, outs, outs2, lzwVars>>

Next ==
    \/ PackDefault
    \/ PackWidth
    \/ Next_
    \/ SetInputFieldWidth
    \/ SetOutputFieldWidth

Spec == Init /\ [][Next]_vars

----------------------------------------------------------------------------
(* Claims about the packer driven through its public methods (Spec) *)

\* the buffer holds exactly the first bit_count bits not yet returned,
\* left-justified at the top of its r_wbits bits
Aligned(pk, b) ==
    /\ pk.bit_count <= Len(b)
    /\ pk.r = Shl(Value(SubSeq(b, 1, pk.bit_count)), pk.r_wbits - pk.bit_count)

\* C5: when pack(value, width) or set_input_field_width(width) raises max_wbits
\* while bits are buffered, the buffered bits stay left-justified at the top of
\* the wider buffer, so that the next() calls that follow return them unchanged.
C5_GrowthKeepsBitsAligned ==
    /\ last.grew => Aligned(p, stream)
    /\ (last.op = "next" /\ ~last.raised) => last.value = last.expect

\* C6: after set_input_field_width(w), a pack(value) without a width queues the
\* field with width w.
C6_DefaultWidthFollowsSetInput ==
    (last.op = "pack" /\ ~last.explicit /\ p.defualt_wbits # NoAttr)
        => p.fields[Len(p.fields)][2] = p.defualt_wbits

\* C7: next() raises StopIteration exactly when the queue is empty and no bit
\* is buffered; a call that raises changes nothing, so the call after it raises
\* again.
C7_Exhaustion ==
    /\ [][last'.op = "next" =>
            /\ last'.raised <=> (Len(p.fields) = 0 /\ p.bit_count = 0)
            /\ last'.raised => (p' = p /\ stream' = stream)]_vars
    /\ []((last.op = "next" /\ last.raised) => NextRaises(p))

\* next() has raised after fields were packed and drained
C7_Witness ==
    /\ last.op = "next" /\ last.raised
    /\ p.r_wbits > p.out_wbits + p.default_wbits

----------------------------------------------------------------------------
(* Fields packed, then the packer drained (the doctests' use: pack every     *)
(* field, then array.array("B", p))                                          *)

InitDrain ==
    /\ \E in_wbits \in Widths, out_wbits \in Widths : p = Packer(in_wbits, out_wbits)
    /\ q = Packer(1, 1)
    /\ pc = "packing"
    /\ pushed = <<>> /\ stream = <<>> /\ outs = <<>> /\ outs2 = <<>>
    /\ last = NoCall
    /\ nset = 0
    /\ IdleLzw

\* p.pack(v), before the first next()
DrainPackDefault ==
    /\ pc = "packing"
    /\ Len(pushed) + p.default_wbits <= MaxDrainBits
    /\ \E v \in Values(p.default_wbits) :
        /\ p' = pack(p, v, None)
        /\ pushed' = pushed \o Bits(v, p.default_wbits)
        /\ last' = [NoCall EXCEPT !.op = "pack", !.value = v]
    /\ UNCHANGED <<q, pc, stream, outs, outs2, nset, lzwVars>>

\* p.pack(v, w), before the first next()
DrainPackWidth ==
    /\ pc = "packing"
    /\ \E w \in Widths :
        /\ Len(pushed) + w <= MaxDrainBits
        /\ \E v \in Values(w) :
            /\ p' = pack(p, v, <<w>>)
            /\ pushed' = pushed \o Bits(v, w)
            /\ last' = [NoCall EXCEPT !.op = "pack", !.value = v, !.explicit = TRUE,
                                      !.width = w]
    /\ UNCHANGED <<q, pc, stream, outs, outs2, nset, lzwVars>>

\* one step of the iteration over p: p.next(), until it raises StopIteration
DrainNext ==
    /\ pc \in {"packing", "draining"}
    /\ p' = NextPacker(p)
    /\ IF NextRaises(p)
       THEN /\ pc' = "done"
            /\ last' = [NoCall EXCEPT !.op = "next", !.raised = TRUE]
            /\ UNCHANGED outs
       ELSE /\ pc' = "draining"
            /\ last' = [NoCall EXCEPT !.op = "next", !.value = NextValue(p),
                                      !.width = p.out_wbits]
            /\ outs' = Append(outs, NextValue(p))
    /\ UNCHANGED <<q, pushed, stream, outs2, nset, lzwVars>>

NextDrain ==
    \/ DrainPackDefault
    \/ DrainPackWidth
    \/ DrainNext

SpecDrain == InitDrain /\ [][NextDrain]_vars

\* C1: fields packed before the first next(), then next() until it raises:
\* ceil(bits packed / W) values come out, and as W-bit groups they are the
\* packed bits in pack order followed by zero bits only.
C1_DrainYieldsPackedBits ==
    pc = "done" =>
        /\ Len(outs) = CeilDiv(Len(pushed), p.out_wbits)
        /\ Concat(outs, p.out_wbits)
             = pushed \o Zeros(Len(outs) * p.out_wbits - Len(pushed))

\* a drained packer that held fields wider than its default width, returned
\* several values and padded the last one
C1_Witness ==
    /\ pc = "done"
    /\ Len(outs) >= 2
    /\ Len(pushed) % p.out_wbits # 0
    /\ p.max_wbits > p.default_wbits
    /\ \E i \in 1..Len(pushed) : pushed[i] = 1

----------------------------------------------------------------------------
(* The round trip of the class doctest: codes packed by Packer(9) into bytes,  *)
(* the bytes packed by Packer(8, out_wbits=9) back into codes                  *)

InitRoundTrip ==
    /\ p = Packer(CodeWidth, ByteWidth)
    /\ q = Packer(ByteWidth, CodeWidth)
    /\ pc = "codes"
    /\ pushed = <<>> /\ stream = <<>> /\ outs = <<>> /\ outs2 = <<>>
    /\ last = NoCall
    /\ nset = 0
    /\ IdleLzw

\* for v in bit_fields: p.pack(v)
RtPack ==
    /\ pc = "codes"
    /\ Len(emitted) < MaxCodes
    /\ \E c \in RtCodes :
        /\ p' = pack(p, c, None)
        /\ emitted' = Append(emitted, c)
    /\ UNCHANGED <<q, pc, pushed, stream, outs, outs2, last, nset,
                   s, idx, seq, lzw_table, count>>

\* array.array("B", p): one p.next(); StopIteration ends the iteration
RtEncode ==
    /\ pc \in {"codes", "encode"}
    /\ p' = NextPacker(p)
    /\ IF NextRaises(p)
       THEN /\ pc' = "repack"
            /\ UNCHANGED outs
       ELSE /\ pc' = "encode"
            /\ outs' = Append(outs, NextValue(p))
    /\ UNCHANGED <<q, pushed, stream, outs2, last, nset, lzwVars>>

\* for v in bit_fields: p.pack(v), on the second packer; idx bytes are packed
RtRepack ==
    /\ pc = "repack"
    /\ IF idx < Len(outs)
       THEN /\ q' = pack(q, outs[idx + 1], None)
            /\ idx' = idx + 1
            /\ UNCHANGED pc
       ELSE /\ pc' = "decode"
            /\ UNCHANGED <<q, idx>>
    /\ UNCHANGED <<p, pushed, stream, outs, outs2, last, nset,
                   s, seq, lzw_table, count, emitted>>

\* for v in p: print v, on the second packer
RtDecode ==
    /\ pc = "decode"
    /\ q' = NextPacker(q)
    /\ IF NextRaises(q)
       THEN /\ pc' = "done"
            /\ UNCHANGED outs2
       ELSE /\ outs2' = Append(outs2, NextValue(q))
            /\ UNCHANGED pc
    /\ UNCHANGED <<p, pushed, stream, outs, last, nset, lzwVars>>

NextRoundTrip ==
    \/ RtPack
    \/ RtEncode
    \/ RtRepack
    \/ RtDecode

SpecRoundTrip == InitRoundTrip /\ [][NextRoundTrip]_vars

\* the codes the second packer owes: the codes packed, and one more code, 0,
\* made of the first packer's zero padding, unless the codes fill whole bytes
PaddedCodes(codes) ==
    IF (Len(codes) * CodeWidth) % ByteWidth = 0 THEN codes ELSE Append(codes, 0)

\* C2 as stated: decoding the encoded codes yields exactly the codes.
C2_RoundTripExact == pc = "done" => outs2 = emitted

\* C2 as amended: decoding the encoded codes yields the codes, followed by one
\* extra code 0 when the number of codes is not a multiple of 8.
C2_RoundTripUpToPad == pc = "done" => outs2 = PaddedCodes(emitted)

\* a finished round trip of several codes that do not fill whole bytes
C2_Witness ==
    /\ pc = "done"
    /\ Len(emitted) >= 3
    /\ (Len(emitted) * CodeWidth) % ByteWidth # 0
    /\ \E i \in 1..Len(emitted) : emitted[i] # 0

----------------------------------------------------------------------------
(* The output width changed mid-stream: default-width pack and next calls,   *)
(* then set_output_field_width, then the packer drained (the doctests with   *)
(* out_wbits 2 -> 8 and 17 -> 1)                                             *)

\* the bits a packer holds: the bit_count bits at the top of its buffer, then
\* the bits of its queued fields
PendingBits(pk) ==
    Bits(Shr(pk.r, pk.r_wbits - pk.bit_count), pk.bit_count) \o FieldBits(pk.fields)

\* p.set_output_field_width(w), once; pushed keeps the bits the packer held
RcSetOutput ==
    /\ pc = "api"
    /\ \E w \in Widths :
        /\ p' = set_output_field_width(p, w)
        /\ last' = [op |-> "set_output_field_width", width |-> w, from |-> p.out_wbits,
                    buffered |-> p.bit_count, queued |-> Len(p.fields)]
    /\ pushed' = PendingBits(p)
    /\ pc' = "drain"
    /\ UNCHANGED <<q, stream, outs, outs2, nset, lzwVars>>

\* the iteration over p after the change: p.next() until it raises
RcDrain ==
    /\ pc = "drain"
    /\ p' = NextPacker(p)
    /\ IF NextRaises(p)
       THEN /\ pc' = "done"
            /\ UNCHANGED outs
       ELSE /\ outs' = Append(outs, NextValue(p))
            /\ UNCHANGED pc
    /\ UNCHANGED <<q, pushed, stream, outs2, last, nset, lzwVars>>

NextReconf ==
    \/ PackDefault
    \/ Next_
    \/ RcSetOutput
    \/ RcDrain

SpecReconf == Init /\ [][NextReconf]_vars

\* C3: set_output_field_width(N), called in a state reached by default-width
\* pack and next calls, changes neither bit_count nor the queue; the bits the
\* packer holds are the bits packed and not yet returned, and draining yields
\* N-bit values that are those bits followed by zero bits only.
C3_OutputWidthChangeKeepsBits ==
    /\ [][(pc = "api" /\ pc' = "drain") =>
            /\ p'.bit_count = p.bit_count
            /\ p'.fields = p.fields
            /\ PendingBits(p') = PendingBits(p)
            /\ PendingBits(p) = stream]_vars
    /\ [](pc = "done" =>
            /\ Len(outs) = CeilDiv(Len(pushed), p.out_wbits)
            /\ Concat(outs, p.out_wbits)
                 = pushed \o Zeros(Len(outs) * p.out_wbits - Len(pushed)))

\* a packer drained after its output width changed while it held buffered
\* bits and queued fields
C3_Witness ==
    /\ pc = "done"
    /\ last.buffered > 0 /\ last.queued > 0
    /\ last.width # last.from
    /\ Len(outs) >= 2
    /\ \E i \in 1..Len(pushed) : pushed[i] = 1

----------------------------------------------------------------------------
(* A packer whose output width is changed before any value is drawn (p),     *)
(* beside a packer constructed with that output width (q): the same calls    *)
(* are made on both                                                          *)

\* the doctest's packers: Packer(1, out_wbits=2) switched to 8, Packer(1)
Doctest == q.default_wbits = 1 /\ q.out_wbits = ByteWidth

\* the bits a pair of packers may hold: a byte of one-bit fields in the doctest
EqLimit == IF Doctest THEN ByteWidth ELSE MaxBits

InitEquiv ==
    /\ \/ \E in_wbits \in Widths, out_wbits \in Widths, w \in Widths :
            p = Packer(in_wbits, out_wbits) /\ q = Packer(in_wbits, w)
       \/ p = Packer(1, 2) /\ q = Packer(1, ByteWidth)
    /\ pc = "pre"
    /\ pushed = <<>> /\ stream = <<>> /\ outs = <<>> /\ outs2 = <<>>
    /\ last = NoCall
    /\ nset = 0
    /\ IdleLzw

\* pack(v) on both packers
EqPackDefault ==
    /\ pc \in {"pre", "post"}
    /\ Len(stream) + p.default_wbits <= EqLimit
    /\ \E v \in Values(p.default_wbits) :
        /\ p' = pack(p, v, None)
        /\ q' = pack(q, v, None)
        /\ stream' = stream \o Bits(v, p.default_wbits)
        /\ last' = [NoCall EXCEPT !.op = "pack", !.value = v]
    /\ UNCHANGED <<pc, pushed, outs, outs2, nset, lzwVars>>

\* pack(v, w) on both packers
EqPackWidth ==
    /\ pc \in {"pre", "post"}
    /\ ~Doctest
    /\ \E w \in Widths :
        /\ Len(stream) + w <= EqLimit
        /\ \E v \in Values(w) :
            /\ p' = pack(p, v, <<w>>)
            /\ q' = pack(q, v, <<w>>)
            /\ stream' = stream \o Bits(v, w)
            /\ last' = [NoCall EXCEPT !.op = "pack", !.value = v, !.explicit = TRUE,
                                      !.width = w]
    /\ UNCHANGED <<pc, pushed, outs, outs2, nset, lzwVars>>

\* p.set_output_field_width(w), w the output width q was constructed with
EqSwitch ==
    /\ pc = "pre"
    /\ p' = set_output_field_width(p, q.out_wbits)
    /\ last' = [NoCall EXCEPT !.op = "set_output_field_width", !.width = q.out_wbits,
                              !.value = p.out_wbits]
    /\ pc' = "post"
    /\ UNCHANGED <<q, pushed, stream, outs, outs2, nset, lzwVars>>

\* next() on both packers; last keeps what each call did
EqNext ==
    /\ pc = "post"
    /\ p' = NextPacker(p)
    /\ q' = NextPacker(q)
    /\ last' = [op |-> "next",
                raised |-> NextRaises(p),
                value |-> IF NextRaises(p) THEN 0 ELSE NextValue(p),
                raised2 |-> NextRaises(q),
                value2 |-> IF NextRaises(q) THEN 0 ELSE NextValue(q),
                expect |-> Expected(stream, q.out_wbits),
                held |-> Len(stream)]
    /\ stream' = Drop(stream, q.out_wbits)
    /\ UNCHANGED <<pc, pushed, outs, outs2, nset, lzwVars>>

NextEquiv ==
    \/ EqPackDefault
    \/ EqPackWidth
    \/ EqSwitch
    \/ EqNext

SpecEquiv == InitEquiv /\ [][NextEquiv]_vars

\* C4: once the output width of p is changed to W, before any value is drawn,
\* p is in the state of the packer constructed with output width W that got
\* the same pack calls, and every next() does on p what it does on that
\* packer; with the doctest's packers (output width 2 changed to 8, one-bit
\* fields) the bytes drawn are the packed bits, 0xFF for eight fields of value 1.
C4_SwitchedPackerIsFreshPacker ==
    pc = "post" =>
        /\ p = q
        /\ last.op = "next" =>
            /\ last.raised = last.raised2
            /\ last.value = last.value2
            /\ (Doctest /\ ~last.raised) => last.value = last.expect

\* the doctest's packers have returned the byte 0xFF for eight one-bit fields
\* of value 1 and are exhausted
C4_Witness ==
    /\ pc = "post" /\ Doctest
    /\ last.op = "next" /\ ~last.raised
    /\ last.held = ByteWidth /\ last.value = 2^ByteWidth - 1
    /\ NextRaises(p)

----------------------------------------------------------------------------
(* filter.py: class LZW and lzw_encode *)

CLEAR_TABLE == 256

EOD == 257

\* a mutant of FirstCode: the counter starts at the first reserved code
FirstCode_Reserved == CLEAR_TABLE

\* the first value of itertools.count(258), the defaultdict's default factory
FirstCode == 258

\* range(255): the bytes default_table enters
TableBytes == 0..(255 - 1)

\* LZW.default_table(): the entries of the defaultdict
default_table == [k \in {<<b>> : b \in TableBytes} |-> k[1]]

\* a mutant of Lookup: the counter does not advance past the value handed out
Lookup_SameCode(table, cnt, key) ==
    IF key \in DOMAIN table
    THEN <<table[key], table, cnt>>
    ELSE <<cnt, table @@ (key :> cnt), cnt>>

\* defaultdict.__getitem__: <<the value, the entries after, the counter after>>;
\* a missing key is entered with the counter's next value
Lookup(table, cnt, key) ==
    IF key \in DOMAIN table
    THEN <<table[key], table, cnt>>
    ELSE <<cnt, table @@ (key :> cnt), cnt + 1>>

\* the bytes the explored inputs are made of
LzwAlphabet == {45, 65, 255}

\* the doctest's input
DoctestInput == <<45, 45, 45, 45, 45, 65, 45, 45, 45, 66>>

\* an input that makes the table grow past the codes of CodeWidth bits: as many
\* distinct bytes as there are codes from FirstCode to 2^CodeWidth - 1, each
\* pair of neighbours a new entry, then the byte 255 and one more byte
LongInput ==
    LET n == 2^CodeWidth - FirstCode
    IN  [i \in 1..(n + 2) |-> IF i <= n THEN i - 1 ELSE IF i = n + 1 THEN 255 ELSE 0]

LzwInputs ==
    UNION {[1..n -> LzwAlphabet] : n \in 0..MaxInput} \cup {DoctestInput, LongInput}

InitLZW ==
    /\ s \in LzwInputs
    /\ pc = "start"
    /\ p = Packer(1, 1) /\ q = Packer(1, 1)
    /\ pushed = <<>> /\ stream = <<>> /\ outs = <<>> /\ outs2 = <<>>
    /\ last = NoCall
    /\ nset = 0
    /\ idx = 0 /\ seq = <<>> /\ lzw_table = <<>> /\ count = 0 /\ emitted = <<>>

\* lzw_table = LZW.default_table(); codes = bits.Packer(9);
\* codes.pack(LZW.CLEAR_TABLE); seq = ""
LzwStart ==
    /\ pc = "start"
    /\ lzw_table' = default_table
    /\ count' = FirstCode
    /\ p' = pack(Packer(CodeWidth, ByteWidth), CLEAR_TABLE, None)
    /\ emitted' = <<CLEAR_TABLE>>
    /\ seq' = <<>>
    /\ pc' = "loop"
    /\ UNCHANGED <<q, pushed, stream, outs, outs2, last, nset, s, idx>>

\* one iteration of `for v in s`
LzwStep ==
    /\ pc = "loop"
    /\ idx < Len(s)
    /\ LET v == s[idx + 1]
           _seq == Append(seq, v)
       IN  IF _seq \in DOMAIN lzw_table
           THEN /\ seq' = _seq
                /\ UNCHANGED <<p, lzw_table, count, emitted>>
           ELSE LET code == Lookup(lzw_table, count, seq)
                    new == Lookup(code[2], code[3], _seq)
                IN  /\ p' = set_input_field_width(pack(p, code[1], None),
                                                  bit_length(new[1]))
                    /\ emitted' = Append(emitted, code[1])
                    /\ lzw_table' = new[2]
                    /\ count' = new[3]
                    /\ seq' = <<v>>
    /\ idx' = idx + 1
    /\ UNCHANGED <<q, pc, pushed, stream, outs, outs2, last, nset, s>>

\* after the loop: if seq != "": codes.pack(lzw_table[seq]); codes.pack(LZW.EOD)
LzwFinish ==
    /\ pc = "loop"
    /\ idx = Len(s)
    /\ IF seq # <<>>
       THEN LET code == Lookup(lzw_table, count, seq)
            IN  /\ p' = pack(pack(p, code[1], None), EOD, None)
                /\ emitted' = emitted \o <<code[1], EOD>>
                /\ lzw_table' = code[2]
                /\ count' = code[3]
       ELSE /\ p' = pack(p, EOD, None)
            /\ emitted' = Append(emitted, EOD)
            /\ UNCHANGED <<lzw_table, count>>
    /\ pc' = "drain"
    /\ UNCHANGED <<q, pushed, stream, outs, outs2, last, nset, s, idx, seq>>

\* array("B", codes): one codes.next(); StopIteration ends the iteration
LzwDrain ==
    /\ pc = "drain"
    /\ p' = NextPacker(p)
    /\ IF NextRaises(p)
       THEN /\ pc' = "done"
            /\ UNCHANGED outs
       ELSE /\ outs' = Append(outs, NextValue(p))
            /\ UNCHANGED pc
    /\ UNCHANGED <<q, pushed, stream, outs2, last, nset, lzwVars>>

NextLZW ==
    \/ LzwStart
    \/ LzwStep
    \/ LzwFinish
    \/ LzwDrain

SpecLZW == InitLZW /\ [][NextLZW]_vars

\* C8: every code lzw_encode hands to the packer is queued with a width that
\* can represent it: c < 2^w.
C8_CodesFitTheirWidth ==
    \A i \in 1..Len(p.fields) : p.fields[i][1] < 2^(p.fields[i][2])

\* C9: the table lzw_encode starts from maps every byte b in 0..255 to code b,
\* so no single byte is entered with a code >= 258 and the empty sequence is
\* never entered, nor its code emitted.
C9_TableHoldsEveryByte ==
    pc # "start" =>
        /\ \A b \in 0..255 : <<b>> \in DOMAIN lzw_table /\ lzw_table[<<b>>] = b
        /\ <<>> \notin DOMAIN lzw_table

\* C10: the codes handed to the packer start with CLEAR_TABLE, which occurs
\* nowhere else; EOD is handed last and occurs nowhere else; the code of a
\* non-empty trailing seq is handed immediately before EOD.
C10_ClearFirstEodLast ==
    pc # "start" =>
        /\ emitted[1] = CLEAR_TABLE
        /\ \A i \in 2..Len(emitted) : emitted[i] # CLEAR_TABLE
        /\ \A i \in 1..Len(emitted) : emitted[i] = EOD => (i = Len(emitted) /\ pc # "loop")
        /\ pc # "loop" =>
            /\ emitted[Len(emitted)] = EOD
            /\ seq # <<>> => emitted[Len(emitted) - 1] = lzw_table[seq]
            /\ seq = <<>> => emitted = <<CLEAR_TABLE, EOD>>

\* the doctest's input is encoded: codes of table entries were handed to the
\* packer between CLEAR_TABLE and EOD, the last of them the trailing seq's
C10_Witness ==
    /\ pc = "done"
    /\ s = DoctestInput
    /\ Len(emitted) = 8
    /\ seq = <<66>>
    /\ \E i \in 2..7 : emitted[i] >= FirstCode

----------------------------------------------------------------------------
(* Claims about the table of lzw_encode (SpecLZW) *)

\* the entries the defaultdict created: those default_table did not enter
Created == {k \in DOMAIN lzw_table : k \notin DOMAIN default_table}

\* the number of codes lzw_encode emitted on a miss of seq + byte, each
\* followed by the insertion of seq + byte: the codes handed to the packer
\* but CLEAR_TABLE, the trailing seq's code and EOD
Misses ==
    IF pc = "loop" THEN Len(emitted) - 1
    ELSE Len(emitted) - 2 - (IF seq # <<>> THEN 1 ELSE 0)

\* C11: table entries are created only by the insertion of seq + byte on a
\* miss, never by the lookup of the code to emit; every created entry is a
\* sequence of several bytes; the created entries have the codes 258, 259, ...,
\* one apart, in the order of their creation.
C11_EntriesCreatedByInsertionOnly ==
    pc # "start" =>
        /\ Cardinality(Created) = Misses
        /\ \A k \in Created : Len(k) >= 2
        /\ {lzw_table[k] : k \in Created} = FirstCode..(count - 1)
        /\ Cardinality(Created) = count - FirstCode

\* the input not yet encoded when seq is held: seq and the bytes after it
Rest == SubSeq(s, idx - Len(seq) + 1, Len(s))

\* b is the longest prefix of input that table holds
LongestHeld(b, input, table) ==
    /\ b \in DOMAIN table
    /\ Len(b) <= Len(input) /\ b = SubSeq(input, 1, Len(b))
    /\ \A n \in (Len(b) + 1)..Len(input) : SubSeq(input, 1, n) \notin DOMAIN table

\* C12: every code emitted between CLEAR_TABLE and EOD is the code of the
\* longest prefix of the input not yet encoded that the table holds at that
\* moment; after an emission inside the loop exactly that prefix extended by
\* the next input byte is inserted; the doctest's input yields the codes
\* 256,45,258,258,65,259,66,257 and the bytes 800b6050220c0c8501.
C12_GreedyLongestPrefix ==
    /\ [][(pc = "loop" /\ emitted' # emitted) =>
            IF pc' = "loop"
            THEN /\ LongestHeld(seq, Rest, lzw_table)
                 /\ emitted' = Append(emitted, lzw_table[seq])
                 /\ lzw_table' = lzw_table @@ (Append(seq, s[idx + 1]) :> count)
            ELSE seq # <<>> =>
                 /\ LongestHeld(seq, Rest, lzw_table)
                 /\ emitted' = emitted \o <<lzw_table[seq], EOD>>]_vars
    /\ []((pc = "done" /\ s = DoctestInput) =>
            /\ emitted = <<256, 45, 258, 258, 65, 259, 66, 257>>
            /\ outs = <<128, 11, 96, 80, 34, 12, 12, 133, 1>>)

\* the byte strings the table maps to code c
Denoted(c) == {k \in DOMAIN lzw_table : lzw_table[k] = c}

RECURSIVE Decoded(_)
\* the codes of cs replaced by the byte strings they denote, concatenated
Decoded(cs) ==
    IF Len(cs) = 0 THEN <<>>
    ELSE (CHOOSE k \in Denoted(Head(cs)) : TRUE) \o Decoded(Tail(cs))

\* the codes emitted between CLEAR_TABLE and EOD
Payload ==
    SubSeq(emitted, 2, IF pc = "loop" THEN Len(emitted) ELSE Len(emitted) - 1)

\* C19: once lzw_encode has run, every code emitted between CLEAR_TABLE and
\* EOD denotes one byte string in the encoder's table, and the strings the
\* emitted codes denote, in emission order, are the input.
C19_CodesDenoteTheInput ==
    pc = "done" =>
        /\ \A i \in 1..Len(Payload) :
              /\ Cardinality(Denoted(Payload[i])) = 1
              /\ Payload[i] < CLEAR_TABLE => Denoted(Payload[i]) = {<<Payload[i]>>}
        /\ Decoded(Payload) = s

\* an input with a repeated run and the byte 255 is encoded: a code of a
\* created entry was emitted
C19_Witness ==
    /\ pc = "done"
    /\ Len(s) >= MaxInput
    /\ \E i \in 1..Len(s) : s[i] = 255
    /\ \E i \in 1..Len(Payload) : Payload[i] >= FirstCode /\ Len(CHOOSE k \in Denoted(Payload[i]) : TRUE) >= 2


----------------------------------------------------------------------------
(* The buffer's capacity, in the general specification Spec *)

\* the states next() goes through from pk: pk after each number of turns of
\* its while loop (the fields not yet reached are left out)
FillStates(pk) ==
    {Fill([pk EXCEPT !.fields = SubSeq(pk.fields, 1, k)]) : k \in 0..Len(pk.fields)}

\* C13: in every state reachable by calls of pack, next,
\* set_input_field_width and set_output_field_width, and in every state the
\* while loop of a next() called there goes through, bit_count <= r_wbits.
C13_PendingBitsFitBuffer ==
    /\ p.bit_count <= p.r_wbits
    /\ \A f \in FillStates(p) : f.bit_count <= f.r_wbits

\* after set_output_field_width with bits held, the loop of next() folds a
\* field and fills the buffer up to its last bit but one
C13_Witness ==
    /\ last.op = "set_output_field_width"
    /\ p.bit_count > 0
    /\ \E f \in FillStates(p) : f.bit_count > p.bit_count /\ f.bit_count = f.r_wbits - 1

\* C14 as stated: after every completed operation the buffer holds exactly
\* the bit_count valid bits left-justified: its low r_wbits - bit_count bits
\* are zero and no bit is set at or above position r_wbits. (Every value
\* packed by Spec fits its width.)
C14_BufferLeftJustified ==
    /\ p.r % 2^(p.r_wbits - p.bit_count) = 0
    /\ p.r < 2^p.r_wbits

\* C15: after every operation the derived fields agree with the current
\* widths: r_wbits = out_wbits + max_wbits, pack_mask = 2^out_wbits - 1, and
\* clear_mask clears exactly the bit positions max_wbits up to
\* max_wbits + out_wbits - 1.
C15_DerivedFieldsConsistent ==
    /\ p.r_wbits = p.out_wbits + p.max_wbits
    /\ p.pack_mask = 2^p.out_wbits - 1
    /\ \A i \in 0..p.r_wbits :
          And(Shl(1, i), p.clear_mask) =
              IF i \in p.max_wbits..(p.max_wbits + p.out_wbits - 1) THEN 0 ELSE Shl(1, i)

\* a pack with an explicit width has just raised max_wbits, after a
\* set_input_field_width or set_output_field_width call
C15_Witness ==
    /\ last.op = "pack" /\ last.grew /\ p.max_wbits = last.width
    /\ nset > 0
    /\ p.out_wbits # p.max_wbits

RECURSIVE WidthSum(_, _)
\* the sum of the widths of the first k fields of a queue
WidthSum(fs, k) == IF k = 0 THEN 0 ELSE WidthSum(fs, k - 1) + fs[k][2]

RECURSIVE Placed(_, _)
\* the buffer of pk with its first k queued fields put, in queue order, right
\* below the bits it holds
Placed(pk, k) ==
    IF k = 0 THEN pk.r
    ELSE Or(Placed(pk, k - 1),
            Shl(pk.fields[k][1], pk.r_wbits - pk.bit_count - WidthSum(pk.fields, k)))

\* C16: pack(value, width) only appends (value, width) to the tail of the
\* queue: r, bit_count, out_wbits and the earlier entries stay as they are and
\* max_wbits can only grow; a next() that returns takes some k fields off the
\* front of the queue, and its value and the buffer it leaves are those of the
\* buffer holding these k fields in queue order.
C16_PackAppendsNextTakesFront ==
    [][/\ last'.op = "pack" =>
            /\ p'.fields = Append(p.fields,
                   <<last'.value, IF last'.explicit THEN last'.width ELSE p.default_wbits>>)
            /\ p'.r = p.r /\ p'.bit_count = p.bit_count /\ p'.out_wbits = p.out_wbits
            /\ p'.default_wbits = p.default_wbits
            /\ p'.max_wbits >= p.max_wbits
       /\ (last'.op = "next" /\ ~last'.raised) =>
            LET k == Len(p.fields) - Len(p'.fields)
            IN  /\ k >= 0
                /\ p'.fields = SubSeq(p.fields, k + 1, Len(p.fields))
                /\ p'.bit_count = Max(0, p.bit_count + WidthSum(p.fields, k) - p.out_wbits)
                /\ last'.value = And(Shr(Placed(p, k), p.max_wbits), p.pack_mask)
                /\ p'.r = Shl(And(Placed(p, k), p.clear_mask), p.out_wbits)]_vars

\* next() has taken a field off the front of a queue of several fields and
\* left the later ones queued, with bits still held
C16_Witness ==
    /\ last.op = "next" /\ ~last.raised
    /\ Len(p.fields) >= 2
    /\ p.bit_count > 0

\* the bits a packer still has to hand out: those held and those queued
Measure(pk) == pk.bit_count + WidthSum(pk.fields, Len(pk.fields))

RECURSIVE Drain(_, _)
\* pk after n calls of next() (a call that raises changes nothing)
Drain(pk, n) == IF n = 0 THEN pk ELSE Drain(NextPacker(pk), n - 1)

\* C17: every next() that returns strictly decreases bit_count plus the sum
\* of the queued widths, and from every reachable state
\* ceil((bit_count + sum of the queued widths) / out_wbits) calls of next(),
\* with no pack in between, leave the queue empty and bit_count = 0, where
\* next() raises.
C17_DrainTerminates ==
    /\ [][(last'.op = "next" /\ ~last'.raised) => Measure(p') < Measure(p)]_vars
    /\ [](LET d == Drain(p, CeilDiv(Measure(p), p.out_wbits))
          IN  /\ Len(d.fields) = 0 /\ d.bit_count = 0
              /\ NextRaises(d))

\* bits are held (a next() has returned) and fields are queued that need more
\* than one further call, the last of them for a partial output field
C17_Witness ==
    /\ p.bit_count > 0 /\ Len(p.fields) >= 1
    /\ Measure(p) > p.out_wbits
    /\ Measure(p) % p.out_wbits # 0

\* C18: between operations bit_count < max_wbits; set_output_field_width
\* therefore never changes max_wbits (max(max_wbits, bit_count - width) is the
\* old max_wbits), and no operation lowers max_wbits.
C18_HeldBitsBelowMaxWidth ==
    /\ [](p.bit_count < p.max_wbits)
    /\ [][/\ last'.op = "set_output_field_width" =>
               /\ Max(p.max_wbits, p.bit_count - last'.width) = p.max_wbits
               /\ p'.max_wbits = p.max_wbits
          /\ p'.max_wbits >= p.max_wbits]_vars

\* set_output_field_width was called with a width below the number of bits
\* held, which is the largest it can be
C18_Witness ==
    /\ last.op = "set_output_field_width"
    /\ p.bit_count - last.width > 0
    /\ p.bit_count = p.max_wbits - 1
=============================================================================
